---- MODULE Spec2Model ----
(***************************************************************************)
(* A model of the ReAct agent loop of main.py: the tool get_text_length,   *)
(* the lookup find_tool_by_name, the scratchpad formatter                  *)
(* format_log_to_str and the while loop that drives them.                  *)
(*                                                                         *)
(* Text is modelled as a sequence of one-character strings, so that        *)
(* stripping, concatenation and length are computed, not assumed.          *)
(***************************************************************************)
EXTENDS Integers, Sequences, FiniteSets, TLC

VARIABLES
    pc,                 \* position of the main program
    agent_step,         \* main.py:88/96  the step last returned by agent.invoke
    tool,               \* main.py:105    what find_tool_by_name returned
    observation,        \* main.py:107    what tool.func returned
    intermediate_steps, \* main.py:76     the transcript
    error,              \* the exception that ended the program, or "none"
    printed,            \* main.py:114    the final answers reported so far
    scratchpad,         \* main.py:82     the scratchpad of the last LLM call
    llm_calls,          \* number of agent.invoke calls made so far
    tool_calls,         \* number of tool.func calls made so far
    iter_start,         \* the iteration's number, and the transcript and
                        \* counters as they were when it began
    trace,              \* the LLM calls, tool calls, appends and prints made
                        \* so far, in the order they were made
    call                \* a single call of one of the pure functions

vars == <<pc, agent_step, tool, observation, intermediate_steps, error,
          printed, scratchpad, llm_calls, tool_calls, iter_start, trace,
          call>>

loop_vars == <<pc, agent_step, tool, observation, intermediate_steps, error,
               printed, scratchpad, llm_calls, tool_calls, iter_start, trace>>

(***************************************************************************)
(* Bounds of the model.                                                    *)
(***************************************************************************)
\* the loop is explored until the transcript holds MaxSteps entries
MaxSteps == 3
\* at most MaxWrap characters wrapped before and after a core string
MaxWrap == 2
\* transcripts of at most MaxEntries entries are given to format_log_to_str
MaxEntries == 3
\* tool lists of at most MaxTools tools are given to find_tool_by_name
MaxTools == 2

(***************************************************************************)
(* Text.                                                                   *)
(***************************************************************************)
Quote == "\""
Newline == "\n"

RECURSIVE lstrip(_, _)
\* str.strip, leading side: drop every leading occurrence of the character c
lstrip(s, c) ==
    IF s # <<>> /\ Head(s) = c THEN lstrip(Tail(s), c) ELSE s

RECURSIVE rstrip(_, _)
\* str.strip, trailing side: drop every trailing occurrence of the character c
rstrip(s, c) ==
    IF s # <<>> /\ s[Len(s)] = c THEN rstrip(SubSeq(s, 1, Len(s) - 1), c) ELSE s

\* str.strip(c) for a one-character argument c
strip(s, c) == rstrip(lstrip(s, c), c)

Digit(d) == <<"0", "1", "2", "3", "4", "5", "6", "7", "8", "9">>[d + 1]

RECURSIVE str(_)
\* str(n) of a non-negative int: its decimal digits
str(n) == IF n < 10 THEN <<Digit(n)>> ELSE str(n \div 10) \o <<Digit(n % 10)>>

(***************************************************************************)
(* get_text_length, main.py:15-20.                                         *)
(***************************************************************************)
\* a slip that strips the newlines and forgets the quotes
get_text_length_no_quotes(text) == Len(strip(text, Newline))

get_text_length(text) == Len(strip(strip(text, Newline), Quote))

(***************************************************************************)
(* find_tool_by_name, main.py:23-27.  A tool is a record with a name and   *)
(* the function it wraps.  The function has no raise statement: when no    *)
(* tool carries the name it RETURNS a ValueError instance.                 *)
(***************************************************************************)
ValueError(name) == [exc |-> "ValueError", name |-> name]

IsTool(t) == "func" \in DOMAIN t

RECURSIVE find_tool_from(_, _, _)
find_tool_from(name, tools, i) ==
    IF i > Len(tools) THEN ValueError(name)
    ELSE IF tools[i].name = name THEN tools[i]
    ELSE find_tool_from(name, tools, i + 1)

\* a lookup that falls back on the first tool when the name is absent
find_tool_by_name_default(name, tools) ==
    IF \E i \in 1..Len(tools) : tools[i].name = name
    THEN find_tool_from(name, tools, 1)
    ELSE IF tools # <<>> THEN tools[1] ELSE ValueError(name)

RECURSIVE find_tool_back_from(_, _, _)
find_tool_back_from(name, tools, i) ==
    IF i < 1 THEN ValueError(name)
    ELSE IF tools[i].name = name THEN tools[i]
    ELSE find_tool_back_from(name, tools, i - 1)

\* a lookup that keeps searching and returns the last tool of the name
find_tool_by_name_last(name, tools) == find_tool_back_from(name, tools, Len(tools))

find_tool_by_name(name, tools) == find_tool_from(name, tools, 1)

(***************************************************************************)
(* format_log_to_str, main.py:29-40.                                       *)
(***************************************************************************)
ObservationPrefix == <<"O", "b", "s", "e", "r", "v", "a", "t", "i", "o", "n", ":", " ">>
LlmPrefix == <<"T", "h", "o", "u", "g", "h", "t", ":", " ">>

\* a slip that leaves the prefixes and the newline out
thought_step_bare(thought, action, obs, observation_prefix, llm_prefix) ==
    thought \o action.log \o obs

\* a slip that assigns where the code accumulates
thought_step_assign(thought, action, obs, observation_prefix, llm_prefix) ==
    action.log \o observation_prefix \o obs \o <<Newline>> \o llm_prefix

\* the body of the for loop, lines 38-39
thought_step(thought, action, obs, observation_prefix, llm_prefix) ==
    (thought \o action.log) \o (observation_prefix \o obs \o <<Newline>> \o llm_prefix)

RECURSIVE format_log_loop(_, _, _, _, _)
format_log_loop(steps, i, thought, observation_prefix, llm_prefix) ==
    IF i > Len(steps) THEN thought
    ELSE format_log_loop(steps, i + 1,
             thought_step(thought, steps[i][1], steps[i][2],
                          observation_prefix, llm_prefix),
             observation_prefix, llm_prefix)

format_log_to_str(steps, observation_prefix, llm_prefix) ==
    format_log_loop(steps, 1, <<>>, observation_prefix, llm_prefix)

\* a scratchpad that misses the entry appended last
format_scratchpad_stale(steps) ==
    format_log_to_str(SubSeq(steps, 1, Len(steps) - 1), ObservationPrefix, LlmPrefix)

\* the call of main.py:82, with the default prefixes
format_scratchpad(steps) == format_log_to_str(steps, ObservationPrefix, LlmPrefix)

(***************************************************************************)
(* The steps agent.invoke can return.  The chain prompt | llm | parser     *)
(* (main.py:81-82) is an external collaborator: it returns an AgentAction, *)
(* returns an AgentFinish, or raises.                                      *)
(***************************************************************************)
NoStep == [kind |-> "none"]            \* agent_step = "" of main.py:88
Unbound == [unbound |-> TRUE]          \* a local not assigned yet

IsAction(step) == step.kind = "action"     \* isinstance(step, AgentAction)
IsFinish(step) == step.kind = "finish"     \* isinstance(step, AgentFinish)

DOG == <<"D", "O", "G">>
Dozen == <<"a", "b", "c", "d", "e", "f", "g", "h", "i", "j", "k", "l">>

ToolNames == {"get_text_length", "get_word_count"}
ToolInputs == {DOG, <<Quote>> \o DOG \o <<Quote, Newline>>, Dozen}
Logs == {<<"A", ":", "g", Newline>>, <<"t", Newline, "A", ":", "g", Newline>>}
Answers == {<<"3">>, <<"1", "2">>}

ActionSteps == [kind : {"action"}, tool : ToolNames, tool_input : ToolInputs, log : Logs]
FinishSteps == [kind : {"finish"}, return_values : Answers, log : Logs]
AgentSteps == ActionSteps \cup FinishSteps

\* tools = [get_text_length], main.py:44
tools == <<[name |-> "get_text_length", func |-> "get_text_length"]>>

\* tool.func(text): the function a tool wraps, applied
ApplyFunc(func, text) == get_text_length(text)

(***************************************************************************)
(* The main program, main.py:76-114.                                       *)
(***************************************************************************)
LoopInit ==
    /\ pc = "while"
    /\ agent_step = NoStep
    /\ tool = Unbound
    /\ observation = Unbound
    /\ intermediate_steps = <<>>
    /\ error = "none"
    /\ printed = <<>>
    /\ scratchpad = Unbound
    /\ llm_calls = 0
    /\ tool_calls = 0
    /\ iter_start = [n |-> 0, steps |-> <<>>, llm |-> 0, tool |-> 0]
    /\ trace = <<>>

\* a loop that no Finish ends
while_condition_always(step) == TRUE

\* a loop that gives up after two iterations
while_condition_capped(step) == ~IsFinish(step) /\ llm_calls < 2

\* line 89: while not isinstance(agent_step, AgentFinish)
while_condition(step) == ~IsFinish(step)

\* line 89, condition true: the body is entered
LoopEnter ==
    /\ pc = "while"
    /\ while_condition(agent_step)
    /\ Len(intermediate_steps) < MaxSteps
    /\ pc' = "invoke"
    /\ iter_start' = [n |-> iter_start.n + 1, steps |-> intermediate_steps,
                      llm |-> llm_calls, tool |-> tool_calls]
    /\ UNCHANGED <<agent_step, tool, observation, intermediate_steps, error,
                   printed, scratchpad, llm_calls, tool_calls,
                   trace>>

\* line 89, condition false: the loop is left for line 113
LoopExit ==
    /\ pc = "while"
    /\ ~while_condition(agent_step)
    /\ pc' = "report"
    /\ UNCHANGED <<agent_step, tool, observation, intermediate_steps, error,
                   printed, scratchpad, llm_calls, tool_calls, iter_start,
                   trace>>

\* lines 96-101: the scratchpad is formatted, the LLM called, its text parsed
AgentInvoke ==
    /\ pc = "invoke"
    /\ scratchpad' = format_scratchpad(intermediate_steps)
    /\ llm_calls' = llm_calls + 1
    /\ \E step \in AgentSteps : agent_step' = step
    /\ pc' = "branch"
    /\ trace' = Append(trace, [ev |-> "llm", scratchpad |-> scratchpad',
                                step |-> agent_step'])
    /\ UNCHANGED <<tool, observation, intermediate_steps, error, printed,
                   tool_calls, iter_start>>

\* a handler that swallows the exception and lets the loop try again
AgentInvokeRetries ==
    /\ pc = "invoke"
    /\ scratchpad' = format_scratchpad(intermediate_steps)
    /\ llm_calls' = llm_calls + 1
    /\ pc' = "while"
    /\ trace' = Append(trace, [ev |-> "llm", scratchpad |-> scratchpad',
                                step |-> NoStep])
    /\ UNCHANGED <<agent_step, tool, observation, intermediate_steps, error,
                   printed, tool_calls, iter_start>>

\* lines 96-101 when the chain raises (the parser rejects the text)
AgentInvokeRaises ==
    /\ pc = "invoke"
    /\ scratchpad' = format_scratchpad(intermediate_steps)
    /\ llm_calls' = llm_calls + 1
    /\ error' = "OutputParserException"
    /\ pc' = "crashed"
    /\ trace' = Append(trace, [ev |-> "llm", scratchpad |-> scratchpad',
                                step |-> NoStep])
    /\ UNCHANGED <<agent_step, tool, observation, intermediate_steps, printed,
                   tool_calls, iter_start>>

\* lines 103-105: an AgentAction has its tool looked up
LookupTool ==
    /\ pc = "branch"
    /\ IsAction(agent_step)
    /\ tool' = find_tool_by_name(agent_step.tool, tools)
    /\ pc' = "call"
    /\ UNCHANGED <<agent_step, observation, intermediate_steps, error, printed,
                   scratchpad, llm_calls, tool_calls, iter_start,
                   trace>>

\* an append that is made for every step, a Finish included
SkipActionAppends ==
    /\ pc = "branch"
    /\ ~IsAction(agent_step)
    /\ intermediate_steps' = Append(intermediate_steps, <<agent_step, <<>>>>)
    /\ pc' = "while"
    /\ trace' = Append(trace, [ev |-> "append", entry |-> <<agent_step, <<>>>>])
    /\ UNCHANGED <<agent_step, tool, observation, error, printed, scratchpad,
                   llm_calls, tool_calls, iter_start>>

\* line 103 false: an AgentFinish goes back to the loop condition
SkipAction ==
    /\ pc = "branch"
    /\ ~IsAction(agent_step)
    /\ pc' = "while"
    /\ UNCHANGED <<agent_step, tool, observation, intermediate_steps, error,
                   printed, scratchpad, llm_calls, tool_calls, iter_start,
                   trace>>

\* a slip that calls the tool a second time for the same step
InvokeToolTwice ==
    /\ pc = "call"
    /\ IsTool(tool)
    /\ observation' = ApplyFunc(tool.func, agent_step.tool_input)
    /\ tool_calls' = tool_calls + 2
    /\ pc' = "append"
    /\ trace' = trace \o <<[ev |-> "tool", name |-> tool.name,
                            input |-> agent_step.tool_input,
                            output |-> observation'],
                           [ev |-> "tool", name |-> tool.name,
                            input |-> agent_step.tool_input,
                            output |-> observation']>>
    /\ UNCHANGED <<agent_step, tool, intermediate_steps, error, printed,
                   scratchpad, llm_calls, iter_start>>

\* lines 106-107: tool.func(str(tool_input)) on a tool
InvokeTool ==
    /\ pc = "call"
    /\ IsTool(tool)
    /\ observation' = ApplyFunc(tool.func, agent_step.tool_input)
    /\ tool_calls' = tool_calls + 1
    /\ pc' = "append"
    /\ trace' = Append(trace, [ev |-> "tool", name |-> tool.name,
                                input |-> agent_step.tool_input,
                                output |-> observation'])
    /\ UNCHANGED <<agent_step, tool, intermediate_steps, error, printed,
                   scratchpad, llm_calls, iter_start>>

\* line 107 on the ValueError instance: it has no attribute func
InvokeToolFails ==
    /\ pc = "call"
    /\ ~IsTool(tool)
    /\ error' = "AttributeError"
    /\ pc' = "crashed"
    /\ UNCHANGED <<agent_step, tool, observation, intermediate_steps, printed,
                   scratchpad, llm_calls, tool_calls, iter_start,
                   trace>>

\* a slip that keeps the latest entry only
AppendStepReplaces ==
    /\ pc = "append"
    /\ intermediate_steps' = <<<<agent_step, str(observation)>>>>
    /\ pc' = "while"
    /\ trace' = Append(trace, [ev |-> "append",
                                entry |-> <<agent_step, str(observation)>>])
    /\ UNCHANGED <<agent_step, tool, observation, error, printed, scratchpad,
                   llm_calls, tool_calls, iter_start>>

\* line 109: intermediate_steps.append((agent_step, str(observation)))
AppendStep ==
    /\ pc = "append"
    /\ intermediate_steps' = Append(intermediate_steps, <<agent_step, str(observation)>>)
    /\ pc' = "while"
    /\ trace' = Append(trace, [ev |-> "append",
                                entry |-> <<agent_step, str(observation)>>])
    /\ UNCHANGED <<agent_step, tool, observation, error, printed, scratchpad,
                   llm_calls, tool_calls, iter_start>>

\* a final answer that is printed twice
ReportTwice ==
    /\ pc = "report"
    /\ printed' = printed \o <<agent_step.return_values, agent_step.return_values>>
    /\ pc' = "done"
    /\ trace' = trace \o <<[ev |-> "print", answer |-> agent_step.return_values],
                           [ev |-> "print", answer |-> agent_step.return_values]>>
    /\ UNCHANGED <<agent_step, tool, observation, intermediate_steps, error,
                   scratchpad, llm_calls, tool_calls, iter_start>>

\* lines 113-114: the final answer is printed and the program ends
Report ==
    /\ pc = "report"
    /\ printed' = IF IsFinish(agent_step)
                  THEN Append(printed, agent_step.return_values)
                  ELSE printed
    /\ pc' = "done"
    /\ trace' = IF IsFinish(agent_step)
                THEN Append(trace, [ev |-> "print",
                                    answer |-> agent_step.return_values])
                ELSE trace
    /\ UNCHANGED <<agent_step, tool, observation, intermediate_steps, error,
                   scratchpad, llm_calls, tool_calls, iter_start>>

NoCall == [fn |-> "none", done |-> FALSE]

Init == LoopInit /\ call = NoCall

Next ==
    \/ LoopEnter /\ UNCHANGED call
    \/ LoopExit /\ UNCHANGED call
    \/ AgentInvoke /\ UNCHANGED call
    \/ AgentInvokeRaises /\ UNCHANGED call
    \/ LookupTool /\ UNCHANGED call
    \/ SkipAction /\ UNCHANGED call
    \/ InvokeTool /\ UNCHANGED call
    \/ InvokeToolFails /\ UNCHANGED call
    \/ AppendStep /\ UNCHANGED call
    \/ Report /\ UNCHANGED call

Spec == Init /\ [][Next]_vars

\* the program is sequential and every call of it returns: it keeps stepping
LiveSpec == Spec /\ WF_vars(Next)

(***************************************************************************)
(* The pure functions, each called once on an input drawn from a bounded   *)
(* set: FnInit draws the call, the action applies the function.            *)
(***************************************************************************)
SeqsUpTo(S, n) == UNION {[1..k -> S] : k \in 0..n}

\* strings that neither start nor end with a quote or a newline
Cores == {<<>>, DOG, <<"a", Quote, "b">>, <<"x", Newline, "y">>}
Wraps == SeqsUpTo({Quote, Newline}, MaxWrap)

Funcs == {"get_text_length", "other_func"}
ToolLists == SeqsUpTo([name : ToolNames, func : Funcs], MaxTools)

FnLogs == {<<>>, <<"a", Newline>>}
FnObservations == {<<>>, <<"3">>}
FnEntries ==
    {<<a, o>> : a \in [kind : {"action"}, tool : {"get_text_length"},
                       tool_input : {DOG}, log : FnLogs],
                o \in FnObservations}
Transcripts == SeqsUpTo(FnEntries, MaxEntries)

TextLengthCalls ==
    [fn : {"get_text_length"}, lead : Wraps, core : Cores, trail : Wraps, done : {FALSE}]
FindToolCalls ==
    [fn : {"find_tool_by_name"}, name : ToolNames, tools : ToolLists, done : {FALSE}]
FormatCalls ==
    [fn : {"format_log_to_str"}, steps : Transcripts, done : {FALSE}]

FnInit ==
    /\ LoopInit
    /\ call \in TextLengthCalls \cup FindToolCalls \cup FormatCalls

\* the text a get_text_length call is made on
CallText(c) == c.lead \o c.core \o c.trail

CallTextLength ==
    /\ call.fn = "get_text_length" /\ ~call.done
    /\ call' = [fn |-> call.fn, lead |-> call.lead, core |-> call.core,
                trail |-> call.trail, done |-> TRUE,
                result |-> get_text_length(CallText(call))]
    /\ UNCHANGED loop_vars

CallFindTool ==
    /\ call.fn = "find_tool_by_name" /\ ~call.done
    /\ call' = [fn |-> call.fn, name |-> call.name, tools |-> call.tools,
                done |-> TRUE,
                result |-> find_tool_by_name(call.name, call.tools)]
    /\ UNCHANGED loop_vars

CallFormatLog ==
    /\ call.fn = "format_log_to_str" /\ ~call.done
    /\ call' = [fn |-> call.fn, steps |-> call.steps, done |-> TRUE,
                result |-> format_scratchpad(call.steps)]
    /\ UNCHANGED loop_vars

FnNext == CallTextLength \/ CallFindTool \/ CallFormatLog

FnSpec == FnInit /\ [][FnNext]_vars

(***************************************************************************)
(* Vocabulary of the properties.                                           *)
(***************************************************************************)
\* an iteration of the loop has run to its end, or to the exception that ended it
IterationOver == iter_start.n > 0 /\ pc \in {"while", "crashed"}

\* the chain raised in this iteration: no step was produced
ParseFailed == error = "OutputParserException"

Registered(name) == \E i \in 1..Len(tools) : tools[i].name = name

\* this iteration produced an Action, naming a registered tool or not
ActionProduced == ~ParseFailed /\ IsAction(agent_step)
FinishProduced == ~ParseFailed /\ IsFinish(agent_step)
KnownAction == ActionProduced /\ Registered(agent_step.tool)
UnknownAction == ActionProduced /\ ~Registered(agent_step.tool)

IsPrefix(s, t) == Len(s) <= Len(t) /\ SubSeq(t, 1, Len(s)) = s

\* the loop has been left: normally (report, done) or by an exception
LoopLeft == pc \in {"report", "done", "crashed"}
LoopEnded == pc \in {"report", "done"}

\* the transcript only grows, by appends at its end
OnlyGrows == [][IsPrefix(intermediate_steps, intermediate_steps')]_vars

(***************************************************************************)
(* C1.  The transcript only grows; an iteration that produces a Finish     *)
(* appends nothing and ends the loop; an iteration that produces an Action *)
(* appends one entry and does not end the loop.                            *)
(***************************************************************************)
C1_FinishIteration ==
    (IterationOver /\ FinishProduced) =>
        /\ intermediate_steps = iter_start.steps
        /\ pc = "while"
        /\ ENABLED LoopExit
        /\ ~ENABLED LoopEnter

C1_ActionIteration(produced) ==
    (IterationOver /\ produced) =>
        /\ Len(intermediate_steps) = Len(iter_start.steps) + 1
        /\ pc = "while"
        /\ ~ENABLED LoopExit

\* C1 as stated: every Action iteration appends one entry and goes on, and
\* the loop is left only when the step just produced is a Finish
C1_Stated ==
    /\ [](IsPrefix(iter_start.steps, intermediate_steps))
    /\ []((LoopLeft /\ ~ParseFailed) => IsFinish(agent_step))
    /\ [](C1_FinishIteration)
    /\ [](C1_ActionIteration(ActionProduced))
    /\ OnlyGrows

\* C1 (amended): the transcript only grows; the loop ends normally exactly
\* when the step just produced is a Finish, and that iteration appends
\* nothing; an iteration whose Action names a registered tool appends one
\* entry and does not end the loop; an iteration whose Action names no
\* registered tool appends nothing and ends the run with an exception.
C1_LoopInvariant ==
    /\ [](IsPrefix(iter_start.steps, intermediate_steps))
    /\ [](LoopEnded => (FinishProduced /\ error = "none"))
    /\ [](C1_FinishIteration)
    /\ [](C1_ActionIteration(KnownAction))
    /\ []((IterationOver /\ UnknownAction) =>
             (pc = "crashed" /\ intermediate_steps = iter_start.steps))
    /\ OnlyGrows

\* two Action iterations, then a Finish iteration, ran
C1_Witness == pc = "done" /\ Len(intermediate_steps) = 2 /\ iter_start.n = 3

(***************************************************************************)
(* C2.  A lookup of a name that no tool of the list carries fails with an  *)
(* error: no value comes back to the caller.                               *)
(***************************************************************************)
C2_AbsentName ==
    /\ call.fn = "find_tool_by_name"
    /\ \A i \in 1..Len(call.tools) : call.tools[i].name # call.name

\* C2 as stated: a finished lookup of an absent name has returned nothing
C2_AbsentNameNeverReturns ==
    (C2_AbsentName /\ call.done) => "result" \notin DOMAIN call

(***************************************************************************)
(* C3.  Handling an Action step: the tool the step names is looked up and  *)
(* invoked once on the step's input, and the pair (step, output as a       *)
(* string) is appended at the end of the transcript, whose earlier entries *)
(* keep their place and content.                                           *)
(***************************************************************************)
C3_ActionHandled(produced) ==
    (IterationOver /\ produced) =>
        /\ IsTool(tool)
        /\ tool.name = agent_step.tool
        /\ tool_calls = iter_start.tool + 1
        /\ observation = get_text_length(agent_step.tool_input)
        /\ intermediate_steps =
               iter_start.steps \o <<<<agent_step, str(observation)>>>>

\* the entries already in the transcript stay where and what they are
C3_EntriesKept ==
    [][\A i \in 1..Len(intermediate_steps) :
          /\ i <= Len(intermediate_steps')
          /\ intermediate_steps'[i] = intermediate_steps[i]]_vars

\* C3 as stated: every Action step is handled so
C3_Stated == [](C3_ActionHandled(ActionProduced)) /\ C3_EntriesKept

\* C3 (amended): whenever the loop handles an Action step that names a
\* registered tool, it looks the tool up, invokes it once on the step's
\* input and appends (step, str(output)) at the end of the transcript;
\* every earlier entry keeps its position and content.
C3_ActionAppended == [](C3_ActionHandled(KnownAction)) /\ C3_EntriesKept

\* a second entry, with the two-digit observation "12", follows a first
C3_Witness ==
    /\ pc = "while"
    /\ Len(intermediate_steps) = 2
    /\ intermediate_steps[1][2] = <<"3">>
    /\ intermediate_steps[2][2] = <<"1", "2">>
    /\ intermediate_steps[2][1] = agent_step

(***************************************************************************)
(* C4.  Every iteration makes exactly one LLM call and at most one tool    *)
(* call: one when the parsed step is an Action, none when it is a Finish;  *)
(* the tool is never called before the LLM call of its iteration.          *)
(***************************************************************************)
C4_OrderInIteration ==
    /\ llm_calls - iter_start.llm \in {0, 1}
    /\ tool_calls - iter_start.tool \in {0, 1}
    /\ tool_calls > iter_start.tool => llm_calls = iter_start.llm + 1
    /\ IterationOver => llm_calls = iter_start.llm + 1
    /\ (IterationOver /\ FinishProduced) => tool_calls = iter_start.tool

\* C4 as stated: one tool call whenever the parsed step is an Action
C4_Stated ==
    /\ C4_OrderInIteration
    /\ (IterationOver /\ ActionProduced) => tool_calls = iter_start.tool + 1

\* C4 (amended): every iteration makes exactly one LLM call and at most
\* one tool call: exactly one when the parsed step is an Action naming a
\* registered tool, none when it is a Finish or an Action naming no
\* registered tool; the tool is never called before the LLM call of the
\* same iteration.
C4_CallsPerIteration ==
    /\ C4_OrderInIteration
    /\ (IterationOver /\ KnownAction) => tool_calls = iter_start.tool + 1
    /\ (IterationOver /\ UnknownAction) => tool_calls = iter_start.tool

\* the third iteration is over: three LLM calls, two tool calls, a Finish
C4_Witness ==
    /\ IterationOver /\ FinishProduced
    /\ iter_start.n = 3 /\ llm_calls = 3 /\ tool_calls = 2

(***************************************************************************)
(* C5.  The loop has no iteration bound: once the LLM produces a Finish    *)
(* the program reaches its end, and against an LLM that only ever produces *)
(* Actions naming a registered tool the loop is never left and the         *)
(* transcript grows as far as the model follows it (MaxSteps entries).     *)
(***************************************************************************)
C5_OnlyKnownActions ==
    /\ error = "none"
    /\ agent_step.kind = "none" \/ KnownAction

C5_NoIterationBound ==
    /\ FinishProduced ~> (pc = "done")
    /\ ([]C5_OnlyKnownActions) =>
           ([](~LoopLeft) /\ <>(Len(intermediate_steps) >= MaxSteps))

\* the transcript is full and the loop is still at its condition, not left
C5_Witness ==
    /\ Len(intermediate_steps) = MaxSteps
    /\ pc = "while" /\ KnownAction
    /\ iter_start.n = MaxSteps

(***************************************************************************)
(* C6.  format_log_to_str(T) is the empty string if and only if T is       *)
(* empty.                                                                  *)
(***************************************************************************)
FormatDone == call.fn = "format_log_to_str" /\ call.done

C6_EmptyIffEmpty ==
    FormatDone => ((call.result = <<>>) <=> (call.steps = <<>>))

\* a transcript of one entry whose log and observation are both empty
C6_Witness ==
    /\ FormatDone
    /\ Len(call.steps) = 1
    /\ call.steps[1][1].log = <<>> /\ call.steps[1][2] = <<>>
    /\ call.result # <<>>

(***************************************************************************)
(* C7.  format_log_to_str(T) is the concatenation, over the entries of T   *)
(* in order, of action.log, "Observation: ", the observation, a newline    *)
(* and "Thought: ".                                                        *)
(***************************************************************************)
ObservationText == <<"O", "b", "s", "e", "r", "v", "a", "t", "i", "o", "n", ":", " ">>
ThoughtText == <<"T", "h", "o", "u", "g", "h", "t", ":", " ">>

C7_Piece(entry) ==
    entry[1].log \o ObservationText \o entry[2] \o <<"\n">> \o ThoughtText

RECURSIVE C7_Concat(_)
C7_Concat(T) == IF T = <<>> THEN <<>> ELSE C7_Piece(Head(T)) \o C7_Concat(Tail(T))

C7_Concatenation == FormatDone => call.result = C7_Concat(call.steps)

\* three entries, the first and the last of them different
C7_Witness ==
    /\ FormatDone
    /\ Len(call.steps) = 3
    /\ call.steps[1] # call.steps[3]
    /\ call.steps[1][1].log # <<>>

(***************************************************************************)
(* C8.  The scratchpad never gets shorter: appending an entry to the       *)
(* transcript never shortens format_log_to_str, so the scratchpad of one   *)
(* LLM call is at least as long as that of the call before.                *)
(***************************************************************************)
C8_LengthMonotone ==
    /\ [](\A e \in FnEntries :
             Len(format_scratchpad(Append(intermediate_steps, e)))
                 >= Len(format_scratchpad(intermediate_steps)))
    /\ [][Len(format_scratchpad(intermediate_steps'))
              >= Len(format_scratchpad(intermediate_steps))]_vars
    /\ [][(llm_calls > 0 /\ llm_calls' > llm_calls)
              => Len(scratchpad') >= Len(scratchpad)]_vars

\* the third LLM call was made, on the scratchpad of two entries
C8_Witness ==
    /\ llm_calls = 3 /\ pc = "branch"
    /\ scratchpad = format_scratchpad(intermediate_steps)
    /\ Len(intermediate_steps) = 2
    /\ Len(scratchpad) > Len(format_scratchpad(SubSeq(intermediate_steps, 1, 1)))

(***************************************************************************)
(* C9.  get_text_length strips the surrounding quotes and newlines and     *)
(* counts what remains.                                                    *)
(***************************************************************************)
TextLengthDone == call.fn = "get_text_length" /\ call.done

\* C9 as stated: whatever quotes and newlines are wrapped around the core,
\* the result is the length of the core
C9_Stated == TextLengthDone => call.result = Len(call.core)

\* no quote of w comes before a newline of w
NewlinesFirst(w) ==
    \A i, j \in 1..Len(w) : (w[i] = Quote /\ w[j] = Newline) => j < i

\* no newline of w comes before a quote of w
QuotesFirst(w) ==
    \A i, j \in 1..Len(w) : (w[i] = Newline /\ w[j] = Quote) => j < i

\* C9 (amended): for every core string that neither starts nor ends with a
\* quote or a newline, wrapped in leading newlines followed by leading
\* quotes and in trailing quotes followed by trailing newlines (any of them
\* possibly none), the result is the length of the core string; in
\* particular the input "DOG" with its quotes gives 3.
C9_StripsNewlinesThenQuotes ==
    /\ (TextLengthDone /\ NewlinesFirst(call.lead) /\ QuotesFirst(call.trail))
           => call.result = Len(call.core)
    /\ (TextLengthDone /\ CallText(call) = <<"\"", "D", "O", "G", "\"">>)
           => call.result = 3

\* newline, quote, DOG, quote, newline was measured
C9_Witness ==
    /\ TextLengthDone
    /\ call.lead = <<Newline, Quote>> /\ call.core = DOG
    /\ call.trail = <<Quote, Newline>>
    /\ call.result = 3

(***************************************************************************)
(* C10.  An Action step naming an unregistered tool is fatal: the program  *)
(* stops with an exception, nothing is appended for the step, no tool is   *)
(* invoked, no further LLM call is made and no final answer is reported.   *)
(***************************************************************************)
C10_UnknownToolFatal ==
    /\ [](UnknownAction =>
             /\ pc \in {"branch", "call", "crashed"}
             /\ intermediate_steps = iter_start.steps
             /\ tool_calls = iter_start.tool
             /\ llm_calls = iter_start.llm + 1
             /\ printed = <<>>
             /\ pc = "branch" => ENABLED LookupTool
             /\ pc = "call" => (ENABLED InvokeToolFails /\ ~ENABLED InvokeTool)
             /\ pc = "crashed" => (error = "AttributeError" /\ ~ENABLED Next))
    /\ [][UnknownAction =>
             /\ UnknownAction'
             /\ agent_step' = agent_step
             /\ intermediate_steps' = intermediate_steps
             /\ llm_calls' = llm_calls
             /\ tool_calls' = tool_calls
             /\ printed' = printed]_vars

\* the second iteration's Action named an unregistered tool and the run died
C10_Witness ==
    /\ UnknownAction
    /\ pc = "crashed" /\ error = "AttributeError"
    /\ Len(intermediate_steps) = 1 /\ llm_calls = 2 /\ tool_calls = 1

(***************************************************************************)
(* Vocabulary of the trace.                                                *)
(***************************************************************************)
\* the places of the trace that hold an event of the kind ev
EventsAt(ev) == {i \in 1..Len(trace) : trace[i].ev = ev}

\* the LLM calls whose output the parser rejected
FailedCallsAt == {i \in EventsAt("llm") : trace[i].step.kind = "none"}

(***************************************************************************)
(* C11.  A parse failure is not handled: the exception ends the program,   *)
(* the LLM is not called again, the transcript is what it was before the   *)
(* iteration and no final answer is ever reported.                         *)
(***************************************************************************)
C11_ParseFailureFatal ==
    \A i \in FailedCallsAt :
        /\ i = Len(trace)
        /\ pc = "crashed"
        /\ error = "OutputParserException"
        /\ intermediate_steps = iter_start.steps
        /\ llm_calls = iter_start.llm + 1
        /\ tool_calls = iter_start.tool
        /\ printed = <<>>
        /\ EventsAt("print") = {}
        /\ ~ENABLED Next

\* the third LLM call's output was rejected, after two entries were appended
C11_Witness ==
    /\ FailedCallsAt # {}
    /\ pc = "crashed"
    /\ llm_calls = 3
    /\ Len(intermediate_steps) = 2

(***************************************************************************)
(* C13.  The scratchpad of the k-th LLM call is format_log_to_str of       *)
(* exactly the k-1 entries appended before it, in the order in which their *)
(* tools were invoked: empty at the first call, and holding every earlier  *)
(* observation and no later one at every other call.                       *)
(***************************************************************************)
IsLlmEvent(e) == e.ev = "llm"
IsToolEvent(e) == e.ev = "tool"
IsAppendEvent(e) == e.ev = "append"

\* the entries that the LLM calls and tool calls of a trace prefix give rise
\* to: the j-th of them pairs the j-th step with the j-th tool output
C13_Entries(before) ==
    LET llms == SelectSeq(before, IsLlmEvent)
        tls == SelectSeq(before, IsToolEvent)
    IN  [j \in 1..Len(tls) |-> <<llms[j].step, str(tls[j].output)>>]

C13_ScratchpadOfCall ==
    \A i \in EventsAt("llm") :
        LET before == SubSeq(trace, 1, i - 1)
            k == Len(SelectSeq(before, IsLlmEvent)) + 1
            appended == SelectSeq(before, IsAppendEvent)
            entries == C13_Entries(before)
        IN  /\ Len(entries) = k - 1
            /\ Len(appended) = k - 1
            /\ \A j \in 1..(k - 1) : appended[j].entry = entries[j]
            /\ SubSeq(intermediate_steps, 1, k - 1) = entries
            /\ trace[i].scratchpad = C7_Concat(entries)
            /\ k = 1 => trace[i].scratchpad = <<>>

\* the third LLM call was made, after the observations "3" and "12"
C13_Witness ==
    /\ Cardinality(EventsAt("llm")) = 3
    /\ pc = "branch"
    /\ Len(intermediate_steps) = 2
    /\ intermediate_steps[1][2] = <<"3">>
    /\ intermediate_steps[2][2] = <<"1", "2">>
    /\ trace[Len(trace)].scratchpad = scratchpad
    /\ Len(scratchpad) > 0

(***************************************************************************)
(* C14.  At every iteration boundary the transcript is as long as the      *)
(* number of tool invocations made and as the number of Action steps the   *)
(* parser has returned; every entry holds an Action step; and once the     *)
(* loop has ended the number of LLM calls is the transcript length plus 1. *)
(***************************************************************************)
\* the LLM calls that returned an Action step
ActionCallsAt == {i \in EventsAt("llm") : IsAction(trace[i].step)}

C14_Counts ==
    /\ pc = "while" =>
           /\ Len(intermediate_steps) = tool_calls
           /\ Len(intermediate_steps) = Cardinality(EventsAt("tool"))
           /\ Len(intermediate_steps) = Cardinality(ActionCallsAt)
    /\ \A j \in 1..Len(intermediate_steps) : IsAction(intermediate_steps[j][1])
    /\ LoopEnded =>
           /\ llm_calls = Len(intermediate_steps) + 1
           /\ Cardinality(EventsAt("llm")) = Len(intermediate_steps) + 1

\* the boundary after the second Action iteration
C14_Witness ==
    /\ pc = "while" /\ KnownAction
    /\ Len(intermediate_steps) = 2
    /\ Cardinality(EventsAt("tool")) = 2
    /\ Cardinality(ActionCallsAt) = 2

(***************************************************************************)
(* C15.  When the loop has ended, the final answer reported is the return  *)
(* value of the Finish step of the last LLM call; it is reported once,     *)
(* after the last append; nothing is called after the Finish step.         *)
(***************************************************************************)
\* the LLM calls that returned a Finish step
FinishCallsAt == {i \in EventsAt("llm") : IsFinish(trace[i].step)}

C15_FinalAnswer ==
    /\ \A i \in FinishCallsAt :
           /\ \A j \in EventsAt("llm") \cup EventsAt("tool") \cup EventsAt("append") :
                  j <= i
           /\ trace[i].step = agent_step
    /\ \A p \in EventsAt("print") :
           /\ p = Len(trace)
           /\ p - 1 \in FinishCallsAt
           /\ trace[p].answer = trace[p - 1].step.return_values
           /\ pc = "done"
    /\ Cardinality(EventsAt("print")) <= 1
    /\ Len(printed) = Cardinality(EventsAt("print"))
    /\ pc = "done" =>
           /\ printed = <<agent_step.return_values>>
           /\ Cardinality(EventsAt("print")) = 1
           /\ ~ENABLED Next

\* the answer "12" was reported after two appends
C15_Witness ==
    /\ pc = "done"
    /\ printed = <<<<"1", "2">>>>
    /\ Cardinality(EventsAt("append")) = 2
    /\ trace[Len(trace)].ev = "print"

(***************************************************************************)
(* C16.  A lookup of a name that a tool of the list carries returns a tool *)
(* of that name, the first of them in list order, and leaves the list as   *)
(* it was.                                                                 *)
(***************************************************************************)
FindToolDone == call.fn = "find_tool_by_name" /\ call.done

\* the places of the list at which a tool of the requested name stands
C16_Places == {i \in 1..Len(call.tools) : call.tools[i].name = call.name}

C16_FirstOfName ==
    /\ []((FindToolDone /\ C16_Places # {}) =>
             /\ IsTool(call.result)
             /\ call.result.name = call.name
             /\ \E i \in C16_Places :
                    /\ \A j \in C16_Places : i <= j
                    /\ call.result = call.tools[i])
    /\ [][call.fn = "find_tool_by_name" =>
             (call'.tools = call.tools /\ call'.name = call.name)]_vars

\* two tools of the requested name, wrapping different functions
C16_Witness ==
    /\ FindToolDone
    /\ Len(call.tools) = 2
    /\ C16_Places = {1, 2}
    /\ call.tools[1] # call.tools[2]
    /\ call.result = call.tools[1]

====
